---- MODULE Spec2Model ----
(***************************************************************************)
(* Live transcription pipeline of the browser meeting demo                 *)
(* (src/demos/browser/app/meetingV2/meetingV2.ts, DemoMeetingApp):         *)
(* transcriptEventHandler and the render functions it calls.               *)
(*                                                                         *)
(* JavaScript Maps are sequences of [key, value] records in insertion      *)
(* order; DOM elements are records, the created block divs live in a heap  *)
(* (divs) and partialTranscriptDiv is a reference into it (0 = null).      *)
(* A string that the code splits is modelled as the sequence of its parts. *)
(***************************************************************************)
EXTENDS Integers, Sequences, FiniteSets, TLC

VARIABLES
  enableLiveTranscription,          \* boolean field
  noWordSeparatorForTranscription,  \* boolean field
  partialTranscriptResultMap,       \* Map<string, TranscriptResult>
  partialTranscriptResultTimeMap,   \* Map<string, number>
  transcriptEntitySet,              \* Set<string>
  partialTranscriptDiv,             \* reference to a block div, 0 = null
  divs,                             \* heap of the block divs created so far
  transcriptContainerDiv,           \* children of the transcript container
  nEvents,                          \* number of events delivered so far
  lastEvent,                        \* the event of the last handler call
  threw,                            \* the last handler call ended by an exception
  steps,                            \* per-result log of the last handler call
  previous                          \* the state the last handler call started in

vars == <<enableLiveTranscription, noWordSeparatorForTranscription,
          partialTranscriptResultMap, partialTranscriptResultTimeMap,
          transcriptEntitySet, partialTranscriptDiv, divs,
          transcriptContainerDiv, nEvents, lastEvent, threw, steps, previous>>

\* ------------------------------------------------------------------ bounds

MaxEvents == 4

\* ------------------------------------------------------- program constants

LANGUAGES_NO_WORD_SEPARATOR == {"ja-JP", "zh-CN"}

StaleMs == 5000

\* confidence values are modelled in hundredths: 0.3 is 30
LowConfidence == 30

\* the value null of `let startTimeMs: number = null`
NullMs == -1

NullAttendee == [attendeeId |-> "", externalUserId |-> <<>>]

NoDiv == 0

NBSP == "nbsp"

\* ------------------------------------------------------- JavaScript Map

MapKeys(m) == [i \in 1..Len(m) |-> m[i].key]

MapValues(m) == [i \in 1..Len(m) |-> m[i].value]

MapHas(m, k) == \E i \in 1..Len(m) : m[i].key = k

MapGet(m, k) == m[CHOOSE i \in 1..Len(m) : m[i].key = k].value

\* mutant of MapSet: an entry is appended, also when the key exists
MapSet_AppendsEntry(m, k, v) == Append(m, [key |-> k, value |-> v])

\* Map.prototype.set: an existing key keeps its position, a new key goes last
MapSet(m, k, v) ==
  IF MapHas(m, k)
  THEN [i \in 1..Len(m) |-> IF m[i].key = k THEN [key |-> k, value |-> v] ELSE m[i]]
  ELSE Append(m, [key |-> k, value |-> v])

MapDelete(m, k) == SelectSeq(m, LAMBDA e : e.key # k)

KeySet(m) == {m[i].key : i \in 1..Len(m)}

\* ------------------------------------------------------- Segment Builder

\* JavaScript truthiness of the builder's startTimeMs: null and 0 are falsy
Truthy(ms) == ms # NullMs /\ ms # 0

\* String.prototype.startsWith('[') over the contents the model uses
StartsWithBracket(content) == content \in {"[NAME]", "[PII]"}

createSpaceSpan == [tag |-> "item", text |-> NBSP, classes |-> {"transcript-content"}]

\* mutant of ItemContentSpan: redacted content is not exempted
ItemContentSpan_NoBracketCheck(item, entitySet) ==
  [tag |-> "item",
   text |-> item.content,
   classes |-> {"transcript-content"}
     \cup (IF item.hasConfidence /\ item.confidence < LowConfidence
           THEN {"confidence-style"} ELSE {})
     \cup (IF Cardinality(entitySet) > 0 /\ item.content \in entitySet
           THEN {"entity-color"} ELSE {})]

\* the span created for one item, with its confidence and entity classes
ItemContentSpan(item, entitySet) ==
  [tag |-> "item",
   text |-> item.content,
   classes |-> {"transcript-content"}
     \cup (IF item.hasConfidence /\ ~StartsWithBracket(item.content)
              /\ item.confidence < LowConfidence
           THEN {"confidence-style"} ELSE {})
     \cup (IF Cardinality(entitySet) > 0 /\ item.content \in entitySet
           THEN {"entity-color"} ELSE {})]

\* one iteration of the loop over result.alternatives[0].items, given the
\* span created for the item; b is the builder state
\* [startTimeMs, attendee, contentSpan, segments]
BuildItemSpan(b, item, noSep, itemContentSpan) ==
  IF ~Truthy(b.startTimeMs)
  THEN [b EXCEPT !.contentSpan = [tag |-> "span", children |-> <<itemContentSpan>>],
                 !.attendee = item.attendee,
                 !.startTimeMs = item.startTimeMs]
  ELSE IF item.type = "punctuation"
  THEN [b EXCEPT !.contentSpan = [tag |-> "span",
                                  children |-> Append(b.contentSpan.children, itemContentSpan)],
                 !.segments = Append(b.segments,
                    [contentSpan |-> [tag |-> "span",
                                      children |-> Append(b.contentSpan.children, itemContentSpan)],
                     attendee |-> b.attendee,
                     startTimeMs |-> b.startTimeMs,
                     endTimeMs |-> item.endTimeMs]),
                 !.startTimeMs = NullMs,
                 !.attendee = NullAttendee]
  ELSE IF noSep
  THEN [b EXCEPT !.contentSpan = [tag |-> "span",
                                  children |-> Append(b.contentSpan.children, itemContentSpan)]]
  ELSE [b EXCEPT !.contentSpan = [tag |-> "span",
                                  children |-> b.contentSpan.children
                                               \o <<createSpaceSpan, itemContentSpan>>]]

BuildItem(b, item, noSep, entitySet) ==
  BuildItemSpan(b, item, noSep, ItemContentSpan(item, entitySet))

RECURSIVE BuildItems(_, _, _, _)
BuildItems(b, items, noSep, entitySet) ==
  IF items = <<>> THEN b
  ELSE BuildItems(BuildItem(b, Head(items), noSep, entitySet), Tail(items), noSep, entitySet)

\* "Reached end of the result but there is no closing punctuation"
CloseOpenRun(b, result) ==
  IF Truthy(b.startTimeMs)
  THEN Append(b.segments,
         [contentSpan |-> b.contentSpan,
          attendee |-> b.attendee,
          startTimeMs |-> b.startTimeMs,
          endTimeMs |-> result.endTimeMs])
  ELSE b.segments

\* populatePartialTranscriptSegmentsFromResult: the segments list after the
\* call. The caller checks first that result.alternatives[0] exists.
populatePartialTranscriptSegmentsFromResult(segments, result, noSep, entitySet) ==
  CloseOpenRun(
    BuildItems([startTimeMs |-> NullMs, attendee |-> NullAttendee,
                contentSpan |-> [tag |-> "span", children |-> <<>>],
                segments |-> segments],
               result.alternatives[1].items, noSep, entitySet),
    result)

\* reading result.alternatives[0].items (or .entities) throws a TypeError
\* when alternatives[0] is undefined
ThrowsOnAlternative(result) == Len(result.alternatives) = 0

\* ------------------------------------------------------- Reconciler / Renderer

\* every result of the Store, in Map iteration order, through the builder
RECURSIVE CollectSegments(_, _, _, _)
CollectSegments(segments, values, noSep, entitySet) ==
  IF values = <<>> THEN segments
  ELSE CollectSegments(
         populatePartialTranscriptSegmentsFromResult(segments, Head(values), noSep, entitySet),
         Tail(values), noSep, entitySet)

\* comparator of partialTranscriptSegments.sort: a is placed before b
SegmentCompare(a, b) == a.startTimeMs - b.startTimeMs

\* mutant of InsertSorted: x goes before the elements it ties with
RECURSIVE InsertSorted_Unstable(_, _)
InsertSorted_Unstable(sorted, x) ==
  IF sorted = <<>> THEN <<x>>
  ELSE IF SegmentCompare(Head(sorted), x) >= 0 THEN <<x>> \o sorted
  ELSE <<Head(sorted)>> \o InsertSorted_Unstable(Tail(sorted), x)

\* Array.prototype.sort is stable: x goes after every element that does not
\* compare greater than it
RECURSIVE InsertSorted(_, _)
InsertSorted(sorted, x) ==
  IF sorted = <<>> THEN <<x>>
  ELSE IF SegmentCompare(Head(sorted), x) > 0 THEN <<x>> \o sorted
  ELSE <<Head(sorted)>> \o InsertSorted(Tail(sorted), x)

RECURSIVE SortSegments(_)
SortSegments(segments) ==
  IF segments = <<>> THEN <<>>
  ELSE InsertSorted(SortSegments(SubSeq(segments, 1, Len(segments) - 1)),
                    segments[Len(segments)])

\* externalUserId.split('#').slice(-1)[0] + ': '
SpeakerLabel(attendee) ==
  [name |-> attendee.externalUserId[Len(attendee.externalUserId)], suffix |-> ": "]

\* g is the state of the render walk: the children of the block div,
\* speakerToTranscriptSpanMap (attendeeId -> index of the speaker div that
\* holds its span), the sorted segments and, per segment walked, where it
\* was placed
appendNewSpeakerTranscriptDiv(segment, g) ==
  [g EXCEPT
     !.children = Append(@, [tag |-> "div", class |-> "transcript",
                             speakerSpan |-> SpeakerLabel(segment.attendee),
                             contentSpan |-> segment.contentSpan]),
     !.speakerToTranscriptSpanMap =
        MapSet(@, segment.attendee.attendeeId, Len(g.children) + 1),
     !.placed = Append(@, [block |-> Len(g.children) + 1, how |-> "new"])]

\* mutant of NotLatestSpeaker: an open span is always resumed
NotLatestSpeaker_Never(map, newSpeakerId) == FALSE

\* mutant of NotLatestSpeaker: a speaker with a span is never the latest
NotLatestSpeaker_Always(map, newSpeakerId) == TRUE

\* Array.from(keys).indexOf(id) < length - 1, with 0-based indexOf
NotLatestSpeaker(map, newSpeakerId) ==
  LET keys == MapKeys(map)
      idx == (CHOOSE i \in 1..Len(keys) : keys[i] = newSpeakerId) - 1
  IN idx < Len(keys) - 1

PlaceSegment(g, segment) ==
  LET newSpeakerId == segment.attendee.attendeeId IN
  IF ~MapHas(g.speakerToTranscriptSpanMap, newSpeakerId)
  THEN appendNewSpeakerTranscriptDiv(segment, g)
  ELSE IF NotLatestSpeaker(g.speakerToTranscriptSpanMap, newSpeakerId)
  THEN appendNewSpeakerTranscriptDiv(segment,
         [g EXCEPT !.speakerToTranscriptSpanMap = MapDelete(@, newSpeakerId)])
  ELSE LET blk == MapGet(g.speakerToTranscriptSpanMap, newSpeakerId) IN
       [g EXCEPT !.children[blk].contentSpan.children =
                    @ \o <<createSpaceSpan, segment.contentSpan>>,
                 !.placed = Append(@, [block |-> blk, how |-> "append"])]

RECURSIVE PlaceSegments(_, _)
PlaceSegments(g, segments) ==
  IF segments = <<>> THEN g
  ELSE PlaceSegments(PlaceSegment(g, Head(segments)), Tail(segments))

\* the walk over the sorted segments, from an emptied block div
WalkSegments(partialTranscriptSegments) ==
  PlaceSegments([children |-> <<>>, speakerToTranscriptSpanMap |-> <<>>, placed |-> <<>>,
                 segments |-> partialTranscriptSegments],
                partialTranscriptSegments)

\* what a render pass leaves: the children of the block div, the sorted
\* segments it walked and where it placed each
RenderPass(walk) ==
  [threw |-> FALSE, children |-> walk.children,
   segments |-> walk.segments, placed |-> walk.placed]

\* updatePartialTranscriptDiv: the block div is emptied, then rebuilt from
\* every result of partialTranscriptResultMap. The first result without
\* alternatives[0] throws out of the builder, after the div was emptied.
updatePartialTranscriptDiv(resultMap, noSep, entitySet) ==
  IF \E i \in 1..Len(resultMap) : ThrowsOnAlternative(resultMap[i].value)
  THEN [threw |-> TRUE, children |-> <<>>, segments |-> <<>>, placed |-> <<>>]
  ELSE RenderPass(WalkSegments(
         SortSegments(CollectSegments(<<>>, MapValues(resultMap), noSep, entitySet))))

\* mutant of ApplyUpdate: with no current block the most recent block of
\* the container is taken up again instead of a new div
ApplyUpdate_ReusesLastBlock(st, u) ==
  IF st.div # NoDiv
  THEN [st EXCEPT !.divs[st.div] = u.children,
                  !.threw = u.threw,
                  !.rendered = [segments |-> u.segments, placed |-> u.placed,
                                children |-> u.children, div |-> st.div, created |-> FALSE]]
  ELSE IF Len(st.divs) > 0
  THEN [st EXCEPT !.div = Len(st.divs),
                  !.divs[Len(st.divs)] = u.children,
                  !.threw = u.threw,
                  !.rendered = [segments |-> u.segments, placed |-> u.placed,
                                children |-> u.children, div |-> Len(st.divs),
                                created |-> FALSE]]
  ELSE [st EXCEPT !.div = Len(st.divs) + 1,
                  !.divs = Append(@, u.children),
                  !.container = IF u.threw THEN @
                                ELSE Append(@, [tag |-> "div", id |-> Len(st.divs) + 1]),
                  !.threw = u.threw,
                  !.rendered = [segments |-> u.segments, placed |-> u.placed,
                                children |-> u.children, div |-> Len(st.divs) + 1,
                                created |-> TRUE]]

\* the block div after updatePartialTranscriptDiv returned or threw u
ApplyUpdate(st, u) ==
  IF st.div # NoDiv
  THEN [st EXCEPT !.divs[st.div] = u.children,
                  !.threw = u.threw,
                  !.rendered = [segments |-> u.segments, placed |-> u.placed,
                                children |-> u.children, div |-> st.div, created |-> FALSE]]
  ELSE [st EXCEPT !.div = Len(st.divs) + 1,
                  !.divs = Append(@, u.children),
                  !.container = IF u.threw THEN @
                                ELSE Append(@, [tag |-> "div", id |-> Len(st.divs) + 1]),
                  !.threw = u.threw,
                  !.rendered = [segments |-> u.segments, placed |-> u.placed,
                                children |-> u.children, div |-> Len(st.divs) + 1,
                                created |-> TRUE]]

\* renderPartialTranscriptResults on handler state st: an existing block div
\* is updated in place; otherwise a div is created, updated and, when the
\* update returns, appended to the container
renderPartialTranscriptResults(st) ==
  ApplyUpdate(st, updatePartialTranscriptDiv(st.resultMap, st.noSep, st.entitySet))

\* ------------------------------------------------------- transcriptEventHandler

\* entity.content.split(' ') of every entity of alternatives[0].entities
EntityTokens(result) ==
  LET entities == result.alternatives[1].entities IN
  IF Len(entities) > 0
  THEN UNION {{entities[i].content[j] : j \in 1..Len(entities[i].content)}
              : i \in 1..Len(entities)}
  ELSE {}

\* mutant of EvictOlder: the loop stops at the first key that is not stale
RECURSIVE EvictOlder_ShortCircuit(_, _, _)
EvictOlder_ShortCircuit(timeMap, resultId, resultEndTimeMs) ==
  IF timeMap = <<>> THEN <<>>
  ELSE IF Head(timeMap).key = resultId THEN timeMap
  ELSE IF Head(timeMap).value < resultEndTimeMs - StaleMs
  THEN EvictOlder_ShortCircuit(Tail(timeMap), resultId, resultEndTimeMs)
  ELSE timeMap

\* mutant of EvictOlder: a key exactly at the threshold is evicted too
RECURSIVE EvictOlder_Inclusive(_, _, _)
EvictOlder_Inclusive(timeMap, resultId, resultEndTimeMs) ==
  IF timeMap = <<>> THEN <<>>
  ELSE IF Head(timeMap).key = resultId THEN timeMap
  ELSE IF Head(timeMap).value <= resultEndTimeMs - StaleMs
  THEN EvictOlder_Inclusive(Tail(timeMap), resultId, resultEndTimeMs)
  ELSE <<Head(timeMap)>> \o EvictOlder_Inclusive(Tail(timeMap), resultId, resultEndTimeMs)

\* the loop over partialTranscriptResultTimeMap in insertion order: it stops
\* at the key of the finalized result and deletes the older keys it passes
\* whose end time is below result.endTimeMs - 5000
RECURSIVE EvictOlder(_, _, _)
EvictOlder(timeMap, resultId, resultEndTimeMs) ==
  IF timeMap = <<>> THEN <<>>
  ELSE IF Head(timeMap).key = resultId THEN timeMap
  ELSE IF Head(timeMap).value < resultEndTimeMs - StaleMs
  THEN EvictOlder(Tail(timeMap), resultId, resultEndTimeMs)
  ELSE <<Head(timeMap)>> \o EvictOlder(Tail(timeMap), resultId, resultEndTimeMs)

NoRender == [segments |-> <<>>, placed |-> <<>>, children |-> <<>>, div |-> NoDiv,
             created |-> FALSE]

\* the log entry of one iteration of the loop over transcriptEvent.results:
\* at is the state when the render pass ran, st the state the iteration left
StepRecord(result, at, st, threwAt) ==
  [result |-> result,
   threwAt |-> threwAt,
   entitySetAtRender |-> at.entitySet,
   resultMapAtRender |-> at.resultMap,
   timeMapAtRender |-> at.timeMap,
   noSepAtRender |-> at.noSep,
   rendered |-> st.rendered,
   timeMapAfter |-> st.timeMap,
   resultMapAfter |-> st.resultMap,
   entitySetAfter |-> st.entitySet,
   divAfter |-> st.div]

\* mutant of RemoveAndReset: the results whose keys are no longer tracked
\* are deleted from partialTranscriptResultMap one by one
RemoveAndReset_PrunesResults(st, timeMap) ==
  IF Len(timeMap) = 0
  THEN [st EXCEPT !.timeMap = timeMap, !.entitySet = {},
                  !.div = NoDiv, !.resultMap = <<>>]
  ELSE [st EXCEPT !.timeMap = timeMap, !.entitySet = {},
                  !.resultMap = SelectSeq(@, LAMBDA e : e.key \in KeySet(timeMap))]

\* mutant of RemoveAndReset: the block div is kept when no key is left
RemoveAndReset_KeepsBlock(st, timeMap) ==
  IF Len(timeMap) = 0
  THEN [st EXCEPT !.timeMap = timeMap, !.entitySet = {}, !.resultMap = <<>>]
  ELSE [st EXCEPT !.timeMap = timeMap, !.entitySet = {}]

\* lines 3858-3865: the key of the finalized result is deleted, the entity
\* set cleared and, when no key is left, the batch reset
RemoveAndReset(st, timeMap) ==
  IF Len(timeMap) = 0
  THEN [st EXCEPT !.timeMap = timeMap, !.entitySet = {},
                  !.div = NoDiv, !.resultMap = <<>>]
  ELSE [st EXCEPT !.timeMap = timeMap, !.entitySet = {}]

\* mutant of FinalizeResult: the key of the finalized result is not deleted
FinalizeResult_KeepsKey(st, result) ==
  RemoveAndReset(st, EvictOlder(st.timeMap, result.resultId, result.endTimeMs))

\* mutant of FinalizeResult: the key of the finalized result is deleted
\* before the eviction loop runs, which then never meets it
FinalizeResult_RemovesKeyFirst(st, result) ==
  RemoveAndReset(st, EvictOlder(MapDelete(st.timeMap, result.resultId),
                                result.resultId, result.endTimeMs))

\* the eviction, removal and batch reset that follow the render of a
\* finalized result
FinalizeResult(st, result) ==
  RemoveAndReset(st, MapDelete(EvictOlder(st.timeMap, result.resultId, result.endTimeMs),
                               result.resultId))

Logged(st, result, at, threwAt) ==
  [st EXCEPT !.steps = Append(@, StepRecord(result, at, st, threwAt))]

\* mutant of AfterRender: a partial result is finalized like any other
AfterRender_FinalizesAll(at, st, result) ==
  IF st.threw THEN Logged(st, result, at, "render")
  ELSE Logged(FinalizeResult(st, result), result, at, "none")

\* the rest of the iteration after renderPartialTranscriptResults: at is the
\* state the render pass ran on, st the state it left
AfterRender(at, st, result) ==
  IF st.threw THEN Logged(st, result, at, "render")
  ELSE IF result.isPartial THEN Logged(st, result, at, "none")
  ELSE Logged(FinalizeResult(st, result), result, at, "none")

\* lines 3841-3843: both maps are set, then the render pass runs
SetAndRender(st, result) ==
  AfterRender(st, renderPartialTranscriptResults(st), result)

\* mutant of Upsert: the result is not put into partialTranscriptResultMap
Upsert_TimeMapOnly(st, result) ==
  [st EXCEPT !.timeMap = MapSet(@, result.resultId, result.endTimeMs)]

Upsert(st, result) ==
  [st EXCEPT !.resultMap = MapSet(@, result.resultId, result),
             !.timeMap = MapSet(@, result.resultId, result.endTimeMs)]

\* lines 3830-3840: the entities of a finalized result; reading
\* alternatives[0].entities throws when alternatives[0] is missing
AddEntities(st, result) ==
  IF result.isPartial THEN st
  ELSE [st EXCEPT !.entitySet = @ \cup EntityTokens(result)]

\* mutant of NoteLanguage: the language code of a result is not looked at
NoteLanguage_Ignored(st, result) == [st EXCEPT !.rendered = NoRender]

\* lines 3826-3829
NoteLanguage(st, result) ==
  IF result.languageCode \in LANGUAGES_NO_WORD_SEPARATOR
  THEN [st EXCEPT !.noSep = TRUE, !.rendered = NoRender]
  ELSE [st EXCEPT !.rendered = NoRender]

ThrowAtEntities(st, result) ==
  [Logged(st, result, st, "entities") EXCEPT !.threw = TRUE]

\* one iteration of `for (const result of transcriptEvent.results)`
ProcessResult(st, result) ==
  IF ~result.isPartial /\ ThrowsOnAlternative(result)
  THEN ThrowAtEntities(NoteLanguage(st, result), result)
  ELSE SetAndRender(Upsert(AddEntities(NoteLanguage(st, result), result), result), result)

\* the loop over the batch; an exception ends it
RECURSIVE ProcessResults(_, _)
ProcessResults(st, results) ==
  IF results = <<>> \/ st.threw THEN st
  ELSE ProcessResults(ProcessResult(st, Head(results)), Tail(results))

HandlerState ==
  [noSep |-> noWordSeparatorForTranscription,
   resultMap |-> partialTranscriptResultMap,
   timeMap |-> partialTranscriptResultTimeMap,
   entitySet |-> transcriptEntitySet,
   div |-> partialTranscriptDiv,
   divs |-> divs,
   container |-> transcriptContainerDiv,
   threw |-> FALSE,
   rendered |-> NoRender,
   steps |-> <<>>]

\* mutant of ConfiguredLanguageCode: the medical settings are not read
ConfiguredLanguageCode_StandardOnly(transcriptionConfiguration) ==
  IF transcriptionConfiguration.isNull THEN ""
  ELSE IF transcriptionConfiguration.EngineTranscribeSettings.present
  THEN transcriptionConfiguration.EngineTranscribeSettings.LanguageCode
  ELSE ""

\* the language code a STARTED status configures: JSON.parse of
\* transcriptionConfiguration is modelled by its parsed value
ConfiguredLanguageCode(transcriptionConfiguration) ==
  IF transcriptionConfiguration.isNull THEN ""
  ELSE IF transcriptionConfiguration.EngineTranscribeSettings.present
  THEN transcriptionConfiguration.EngineTranscribeSettings.LanguageCode
  ELSE IF transcriptionConfiguration.EngineTranscribeMedicalSettings.present
  THEN transcriptionConfiguration.EngineTranscribeMedicalSettings.languageCode
  ELSE ""

\* mutant of appendStatusDiv: only a STARTED status gets a line
appendStatusDiv_StartedOnly(container, status) ==
  IF status.type = "started"
  THEN Append(container, [tag |-> "status", type |-> status.type,
                          transcriptionConfiguration |-> status.transcriptionConfiguration])
  ELSE container

\* the status line: the text names the type and the configuration
appendStatusDiv(container, status) ==
  Append(container, [tag |-> "status", type |-> status.type,
                     transcriptionConfiguration |-> status.transcriptionConfiguration])

\* the fields, the DOM and the log as a handler call finds them
Snapshot ==
  [enableLiveTranscription |-> enableLiveTranscription,
   noWordSeparatorForTranscription |-> noWordSeparatorForTranscription,
   partialTranscriptResultMap |-> partialTranscriptResultMap,
   partialTranscriptResultTimeMap |-> partialTranscriptResultTimeMap,
   transcriptEntitySet |-> transcriptEntitySet,
   partialTranscriptDiv |-> partialTranscriptDiv,
   divs |-> divs,
   transcriptContainerDiv |-> transcriptContainerDiv,
   lastEvent |-> lastEvent,
   threw |-> threw,
   steps |-> steps]

\* mutant of EnabledOnEntry: the flag is not touched on entry
EnabledOnEntry_NoFlip == enableLiveTranscription

\* lines 3778-3787: the flag after the first statement of the handler
EnabledOnEntry == IF ~enableLiveTranscription THEN TRUE ELSE enableLiveTranscription

\* mutant of Stopping: the guard reads the flag as it was before the
\* handler's first statement
Stopping_FlagBeforeEntry(status, enabled) ==
  status.type \in {"stopped", "failed"} /\ enableLiveTranscription

\* lines 3806-3811: the condition of the reset branch
Stopping(status, enabled) ==
  status.type \in {"stopped", "failed"} /\ enabled

\* mutant of NoSeparatorOnStarted: the flag is assigned from the language
NoSeparatorOnStarted_Derived(languageCode) ==
  languageCode \in LANGUAGES_NO_WORD_SEPARATOR

\* lines 3803-3805: the word separator flag after a STARTED status
NoSeparatorOnStarted(languageCode) ==
  IF languageCode \in LANGUAGES_NO_WORD_SEPARATOR
  THEN TRUE ELSE noWordSeparatorForTranscription

\* transcriptEventHandler on a TranscriptionStatus
StatusEvent(status) ==
  LET enabled == EnabledOnEntry
      stopping == Stopping(status, EnabledOnEntry)
  IN
  /\ nEvents < MaxEvents
  /\ nEvents' = nEvents + 1
  /\ lastEvent' = [kind |-> "status", status |-> status]
  /\ threw' = FALSE
  /\ steps' = <<>>
  /\ previous' = Snapshot
  /\ transcriptContainerDiv' = appendStatusDiv(transcriptContainerDiv, status)
  /\ UNCHANGED <<transcriptEntitySet, divs>>
  /\ IF status.type = "started"
     THEN /\ enableLiveTranscription' = enabled
          /\ noWordSeparatorForTranscription' =
               NoSeparatorOnStarted(ConfiguredLanguageCode(status.transcriptionConfiguration))
          /\ UNCHANGED <<partialTranscriptResultMap, partialTranscriptResultTimeMap,
                         partialTranscriptDiv>>
     ELSE IF stopping
     THEN /\ enableLiveTranscription' = FALSE
          /\ noWordSeparatorForTranscription' = FALSE
          /\ partialTranscriptResultTimeMap' = <<>>
          /\ partialTranscriptDiv' = NoDiv
          /\ partialTranscriptResultMap' = <<>>
     ELSE /\ enableLiveTranscription' = enabled
          /\ UNCHANGED <<noWordSeparatorForTranscription, partialTranscriptResultMap,
                         partialTranscriptResultTimeMap, partialTranscriptDiv>>

\* transcriptEventHandler on a Transcript
TranscriptEvent(results) ==
  \E st \in {ProcessResults(HandlerState, results)} :
  /\ nEvents < MaxEvents
  /\ nEvents' = nEvents + 1
  /\ lastEvent' = [kind |-> "transcript", results |-> results]
  /\ enableLiveTranscription' = EnabledOnEntry
  /\ noWordSeparatorForTranscription' = st.noSep
  /\ partialTranscriptResultMap' = st.resultMap
  /\ partialTranscriptResultTimeMap' = st.timeMap
  /\ transcriptEntitySet' = st.entitySet
  /\ partialTranscriptDiv' = st.div
  /\ divs' = st.divs
  /\ transcriptContainerDiv' = st.container
  /\ threw' = st.threw
  /\ steps' = st.steps
  /\ previous' = Snapshot

Init ==
  /\ enableLiveTranscription = FALSE
  /\ noWordSeparatorForTranscription = FALSE
  /\ partialTranscriptResultMap = <<>>
  /\ partialTranscriptResultTimeMap = <<>>
  /\ transcriptEntitySet = {}
  /\ partialTranscriptDiv = NoDiv
  /\ divs = <<>>
  /\ transcriptContainerDiv = <<>>
  /\ nEvents = 0
  /\ lastEvent = [kind |-> "none"]
  /\ threw = FALSE
  /\ steps = <<>>
  /\ previous = Snapshot

\* ------------------------------------------------------- events delivered

AttendeeA == [attendeeId |-> "a", externalUserId |-> <<"uid1", "Alice">>]

AttendeeB == [attendeeId |-> "b", externalUserId |-> <<"uid2", "Bob">>]

Word(content, startTimeMs, endTimeMs, attendee) ==
  [content |-> content, type |-> "word", startTimeMs |-> startTimeMs,
   endTimeMs |-> endTimeMs, attendee |-> attendee,
   hasConfidence |-> FALSE, confidence |-> 0]

Punctuation(content, startTimeMs, endTimeMs, attendee) ==
  [content |-> content, type |-> "punctuation", startTimeMs |-> startTimeMs,
   endTimeMs |-> endTimeMs, attendee |-> attendee,
   hasConfidence |-> FALSE, confidence |-> 0]

Result(resultId, isPartial, endTimeMs, items, entities, languageCode) ==
  [resultId |-> resultId, isPartial |-> isPartial, languageCode |-> languageCode,
   alternatives |-> <<[items |-> items, entities |-> entities]>>,
   endTimeMs |-> endTimeMs]

\* a result whose alternatives array is empty
NoAlternative(resultId, isPartial, endTimeMs) ==
  [resultId |-> resultId, isPartial |-> isPartial, languageCode |-> "",
   alternatives |-> <<>>, endTimeMs |-> endTimeMs]

OneWord(content, startTimeMs, attendee) ==
  <<Word(content, startTimeMs, startTimeMs + 50, attendee)>>

Sentence(first, mark, second, startTimeMs, nextStartTimeMs, attendee) ==
  <<Word(first, startTimeMs, startTimeMs + 20, attendee),
    Punctuation(mark, startTimeMs + 20, startTimeMs + 30, attendee),
    Word(second, nextStartTimeMs, nextStartTimeMs + 50, attendee)>>

HelloEntities == <<[content |-> <<"hello", "Bob">>]>>

\* --- events of Spec: the Store, eviction, finalization, stop

R1Partial == Result("r1", TRUE, 1000, OneWord("hello", 100, AttendeeA), <<>>, "")

R2Partial == Result("r2", TRUE, 1000, OneWord("hi", 200, AttendeeB), <<>>, "")

R3Partial == Result("r3", TRUE, 1001, OneWord("well", 300, AttendeeA), <<>>, "")

R1Final == Result("r1", FALSE, 6001, OneWord("hello", 100, AttendeeA), HelloEntities, "")

R2Final == Result("r2", FALSE, 6000, OneWord("hi", 200, AttendeeB), <<>>, "")

R3NoAlternative == NoAlternative("r3", TRUE, 1000)

\* a later hypothesis of r1, with a later end time
R1Update ==
  Result("r1", TRUE, 1500,
         <<Word("hello", 100, 150, AttendeeA), Word("you", 150, 300, AttendeeA)>>, <<>>, "")

Batches ==
  { <<R1Partial>>, <<R2Partial>>, <<R3Partial>>, <<R1Update>>,
    <<R1Final>>, <<R2Final>>, <<R3NoAlternative>>,
    <<R2Partial, R1Final>>, <<R1Final, R2Partial>> }

\* --- events of SpecRender: ordering and speaker grouping

RenderResults ==
  { Result("r1", TRUE, 1000, OneWord("x", 300, AttendeeA), <<>>, ""),
    Result("r1", TRUE, 1000, Sentence("hello", ".", "there", 100, 150, AttendeeA), <<>>, ""),
    Result("r2", TRUE, 1000, OneWord("y", 100, AttendeeB), <<>>, ""),
    Result("r2", TRUE, 1000, Sentence("hi", "!", "yes", 200, 400, AttendeeB), <<>>, ""),
    Result("r3", TRUE, 1000, OneWord("z", 200, AttendeeA), <<>>, ""),
    Result("r3", TRUE, 1000, OneWord("well", 300, AttendeeA), <<>>, ""),
    Result("r3", TRUE, 1000, OneWord("oh", 100, AttendeeA), <<>>, ""),
    Result("r3", FALSE, 1000, OneWord("well", 300, AttendeeA), <<>>, ""),
    Result("r2", TRUE, 1000, Sentence("hi", "!", "yes", 200, 400, AttendeeB), <<>>, "zh-CN") }

RenderBatches ==
  {<<r>> : r \in RenderResults}
  \cup { <<Result("r1", TRUE, 1000, OneWord("x", 300, AttendeeA), <<>>, ""),
           Result("r2", TRUE, 1000, OneWord("y", 100, AttendeeB), <<>>, ""),
           Result("r3", TRUE, 1000, OneWord("z", 200, AttendeeA), <<>>, "")>>,
         <<Result("r3", TRUE, 1000, OneWord("z", 200, AttendeeA), <<>>, ""),
           Result("r3", TRUE, 1000, OneWord("z", 200, AttendeeA), <<>>, "")>> }

\* --- events of SpecBuild: the Segment Builder and malformed results

\* the scenario of the specification: the first item starts at 0
ItemsZero == <<Word("hello", 0, 500, AttendeeA)>>

ItemsZeroFinal == <<Word("hello", 0, 500, AttendeeA), Punctuation(".", 500, 600, AttendeeA)>>

ItemsHello == <<Word("hello", 100, 300, AttendeeA), Word("there", 300, 500, AttendeeA)>>

\* two words, the first of which starts at 0
ItemsZeroHello == <<Word("hello", 0, 300, AttendeeA), Word("there", 300, 500, AttendeeA)>>

ItemsHelloFinal ==
  ItemsHello \o <<Punctuation(".", 500, 600, AttendeeA), Word("so", 700, 800, AttendeeB)>>

BuildResults ==
  { Result("r1", TRUE, 500, ItemsZero, <<>>, ""),
    Result("r1", FALSE, 600, ItemsZeroFinal, <<>>, ""),
    Result("r1", TRUE, 500, ItemsHello, <<>>, ""),
    Result("r1", TRUE, 500, ItemsZeroHello, <<>>, ""),
    Result("r1", FALSE, 800, ItemsHelloFinal, <<>>, ""),
    Result("r2", TRUE, 500, <<>>, <<>>, ""),
    Result("r2", FALSE, 600, <<>>, <<>>, ""),
    NoAlternative("r3", TRUE, 500),
    NoAlternative("r3", FALSE, 600) }

BuildBatches ==
  {<<r>> : r \in BuildResults}
  \cup { <<NoAlternative("r3", TRUE, 500), Result("r1", TRUE, 500, ItemsHello, <<>>, "")>>,
         <<Result("r2", TRUE, 500, <<>>, <<>>, ""),
           Result("r1", FALSE, 800, ItemsHelloFinal, <<>>, "")>> }

Settings(present, upper, lower) ==
  [present |-> present, LanguageCode |-> upper, languageCode |-> lower]

Configuration(transcribe, medical) ==
  [isNull |-> FALSE, EngineTranscribeSettings |-> transcribe,
   EngineTranscribeMedicalSettings |-> medical]

Absent == Settings(FALSE, "", "")

Started(languageCode) ==
  [type |-> "started",
   transcriptionConfiguration |-> Configuration(Settings(TRUE, languageCode, ""), Absent)]

Stopped(type) ==
  [type |-> type,
   transcriptionConfiguration |-> Configuration(Settings(TRUE, "en-US", ""), Absent)]

Statuses == {Started("en-US"), Started("ja-JP"), Stopped("stopped"), Stopped("failed")}

StartStop == {Started("en-US"), Stopped("stopped")}

\* --- events of SpecSession: the enabled flag and the block pointer

\* a status that is neither STARTED nor STOPPED nor FAILED
Other(type) ==
  [type |-> type,
   transcriptionConfiguration |-> Configuration(Settings(TRUE, "en-US", ""), Absent)]

SessionStatuses ==
  { Started("en-US"), Other("interrupted"), Other("resumed"),
    Stopped("stopped"), Stopped("failed") }

SessionBatches ==
  { <<R1Partial>>, <<R2Partial>>, <<R1Final>>, <<R2Final>>,
    <<R1Final, R2Partial>>, <<R3NoAlternative>> }

\* --- events of SpecStyle: confidence and entity highlighting

\* a word item that carries a confidence, in hundredths
Scored(content, confidence, startTimeMs, attendee) ==
  [content |-> content, type |-> "word", startTimeMs |-> startTimeMs,
   endTimeMs |-> startTimeMs + 50, attendee |-> attendee,
   hasConfidence |-> TRUE, confidence |-> confidence]

ItemsScored ==
  <<Scored("word", 20, 100, AttendeeA), Scored("[NAME]", 0, 150, AttendeeA),
    Scored("sure", 30, 200, AttendeeA), Word("plain", 250, 300, AttendeeA)>>

ItemsScoredB == <<Scored("fine", 95, 120, AttendeeB), Scored("maybe", 29, 170, AttendeeB)>>

NameEntities == <<[content |-> <<"[NAME]">>], [content |-> <<"word", "fine">>]>>

FineEntities == <<[content |-> <<"fine">>]>>

StyleBatches ==
  { <<Result("r1", TRUE, 1000, ItemsScored, <<>>, "")>>,
    <<Result("r1", FALSE, 1200, ItemsScored, NameEntities, "")>>,
    <<Result("r2", TRUE, 1000, ItemsScoredB, <<>>, "")>>,
    <<Result("r2", FALSE, 1200, ItemsScoredB, FineEntities, "")>>,
    <<Result("r2", TRUE, 1000, ItemsScoredB, <<>>, ""),
      Result("r1", FALSE, 1200, ItemsScored, NameEntities, "")>> }

\* --- events of SpecLanguage: the word separator flag

\* the medical engine's settings, whose code is read from languageCode
StartedMedical(languageCode) ==
  [type |-> "started",
   transcriptionConfiguration |-> Configuration(Absent, Settings(TRUE, "", languageCode))]

\* language identification: the settings configure no language code
StartedIdentify ==
  [type |-> "started",
   transcriptionConfiguration |-> Configuration(Settings(TRUE, "", ""), Absent)]

LanguageStatuses ==
  { Started("en-US"), Started("ja-JP"), StartedMedical("zh-CN"), StartedIdentify,
    Stopped("stopped"), Stopped("failed") }

ItemsKonnichi == <<Word("kon", 100, 200, AttendeeA), Word("nichi", 200, 300, AttendeeA)>>

ItemsKonnichiwa ==
  ItemsKonnichi \o <<Word("wa", 300, 400, AttendeeA), Punctuation(".", 400, 450, AttendeeA),
                     Word("hai", 500, 600, AttendeeA)>>

ItemsNihao == <<Word("ni", 250, 300, AttendeeB), Word("hao", 300, 400, AttendeeB)>>

LanguageBatches ==
  { <<Result("r1", TRUE, 1000, ItemsKonnichi, <<>>, "")>>,
    <<Result("r1", FALSE, 1200, ItemsKonnichiwa, <<>>, "")>>,
    <<Result("r2", TRUE, 1000, ItemsNihao, <<>>, "zh-CN")>>,
    <<Result("r2", TRUE, 1000, ItemsNihao, <<>>, "en-US")>>,
    <<Result("r1", TRUE, 1000, ItemsKonnichi, <<>>, ""),
      Result("r2", TRUE, 1000, ItemsNihao, <<>>, "zh-CN")>> }

\* the events the transport delivers, one handler call each
Deliver(statuses, batches) ==
  \/ \E status \in statuses : StatusEvent(status)
  \/ \E results \in batches : TranscriptEvent(results)

Next == Deliver(Statuses, Batches)

Spec == Init /\ [][Next]_vars

NextRender == Deliver(StartStop, RenderBatches)

SpecRender == Init /\ [][NextRender]_vars

NextBuild == Deliver(StartStop, BuildBatches)

SpecBuild == Init /\ [][NextBuild]_vars

NextSession == Deliver(SessionStatuses, SessionBatches)

SpecSession == Init /\ [][NextSession]_vars

NextStyle == Deliver(StartStop, StyleBatches)

SpecStyle == Init /\ [][NextStyle]_vars

NextLanguage == Deliver(LanguageStatuses, LanguageBatches)

SpecLanguage == Init /\ [][NextLanguage]_vars

\* ------------------------------------------------------- properties

\* the logged iterations of the last handler call that processed a finalized
\* result to the end
FinalizedSteps ==
  {i \in 1..Len(steps) : ~steps[i].result.isPartial /\ steps[i].threwAt = "none"}

\* position of key k in Map m (insertion order)
Position(m, k) == CHOOSE i \in 1..Len(m) : m[i].key = k

\* the log of the last handler call ends in the state the handler left
LogEndsInState ==
  Len(steps) > 0 =>
    /\ steps[Len(steps)].timeMapAfter = partialTranscriptResultTimeMap
    /\ steps[Len(steps)].resultMapAfter = partialTranscriptResultMap
    /\ steps[Len(steps)].entitySetAfter = transcriptEntitySet
    /\ steps[Len(steps)].divAfter = partialTranscriptDiv

\* C1 as stated: after transcriptEventHandler has processed a Transcript
\* batch, partialTranscriptResultMap.values(), which the next render pass
\* iterates, holds no result with isPartial = false.
C1_NoFinalizedResident ==
  (lastEvent.kind = "transcript" /\ ~threw) =>
    \A i \in 1..Len(partialTranscriptResultMap) :
      partialTranscriptResultMap[i].value.isPartial

\* C1 amended: a finalized result whose processing completes is removed from
\* the tracked keys (partialTranscriptResultTimeMap) in the same call; when
\* its processing ends it is still in partialTranscriptResultMap, with
\* isPartial = false, if another key is still tracked, and the result map is
\* empty if no key is tracked.
C1_FinalizedUntracked ==
  /\ LogEndsInState
  /\ \A i \in FinalizedSteps :
       /\ ~MapHas(steps[i].timeMapAfter, steps[i].result.resultId)
       /\ IF steps[i].timeMapAfter = <<>>
          THEN steps[i].resultMapAfter = <<>>
          ELSE /\ MapHas(steps[i].resultMapAfter, steps[i].result.resultId)
               /\ MapGet(steps[i].resultMapAfter, steps[i].result.resultId) = steps[i].result

\* a finalized result was processed while another key stayed tracked
C1_Witness ==
  \E i \in FinalizedSteps :
    /\ i = Len(steps)
    /\ partialTranscriptResultTimeMap # <<>>
    /\ MapHas(partialTranscriptResultMap, steps[i].result.resultId)

\* the keys other than R's that are stale relative to finalized result R
\* when R is processed
StaleKeys(step) ==
  {k \in KeySet(step.timeMapAtRender) :
     /\ k # step.result.resultId
     /\ MapGet(step.timeMapAtRender, k) < step.result.endTimeMs - StaleMs}

\* C2 as stated: after a finalized result R is processed, every other tracked
\* result whose end time is below R.endTimeMs - 5000 is no longer tracked,
\* whatever the insertion order of the keys.
C2_EvictsEveryStaleKey ==
  \A i \in FinalizedSteps :
    \A k \in StaleKeys(steps[i]) : ~MapHas(steps[i].timeMapAfter, k)

\* C2 amended: after a finalized result R is processed, every other tracked
\* result whose key precedes R's key in the insertion order of
\* partialTranscriptResultTimeMap and whose end time is below
\* R.endTimeMs - 5000 is no longer tracked; each key before R's is compared,
\* and the keys after R's are not examined.
C2_EvictsStaleOlderKeys ==
  \A i \in FinalizedSteps :
    \A k \in StaleKeys(steps[i]) :
      Position(steps[i].timeMapAtRender, k)
         < Position(steps[i].timeMapAtRender, steps[i].result.resultId)
      => ~MapHas(steps[i].timeMapAfter, k)

\* a stale key behind a key that is not stale, both older than R's key
C2_Witness ==
  \E i \in FinalizedSteps :
    \E k \in StaleKeys(steps[i]) :
      /\ Position(steps[i].timeMapAtRender, k) > 1
      /\ Position(steps[i].timeMapAtRender, k)
           < Position(steps[i].timeMapAtRender, steps[i].result.resultId)
      /\ steps[i].timeMapAtRender[1].key \notin StaleKeys(steps[i])
      /\ ~MapHas(steps[i].timeMapAfter, k)

\* C3: processing a finalized result R removes from the tracked keys only
\* R's own key and keys whose end time is below R.endTimeMs - 5000; every
\* other key, also one exactly at the threshold, stays tracked with its end
\* time and its position unchanged, and no key is added.
C3_EvictsOnlyStaleKeys ==
  \A i \in FinalizedSteps :
    /\ \A k \in KeySet(steps[i].timeMapAtRender) :
         (k # steps[i].result.resultId
            /\ MapGet(steps[i].timeMapAtRender, k) >= steps[i].result.endTimeMs - StaleMs)
         => /\ MapHas(steps[i].timeMapAfter, k)
            /\ MapGet(steps[i].timeMapAfter, k) = MapGet(steps[i].timeMapAtRender, k)
    /\ steps[i].timeMapAfter =
         SelectSeq(steps[i].timeMapAtRender,
                   LAMBDA e : MapHas(steps[i].timeMapAfter, e.key))

\* a key exactly at the threshold survived the processing of R
C3_Witness ==
  \E i \in FinalizedSteps :
    \E k \in KeySet(steps[i].timeMapAtRender) :
      /\ k # steps[i].result.resultId
      /\ MapGet(steps[i].timeMapAtRender, k) = steps[i].result.endTimeMs - StaleMs
      /\ MapHas(steps[i].timeMapAfter, k)

\* a result the specification calls malformed
Malformed(result) ==
  \/ Len(result.alternatives) = 0
  \/ Len(result.alternatives[1].items) = 0

\* the last handler call ran every iteration of its batch to the end
ProcessedToCompletion ==
  /\ ~threw
  /\ Len(steps) = Len(lastEvent.results)
  /\ \A i \in 1..Len(steps) :
       steps[i].result = lastEvent.results[i] /\ steps[i].threwAt = "none"

\* the segments the builder makes of the result of a logged iteration
Built(step) ==
  populatePartialTranscriptSegmentsFromResult(<<>>, step.result, step.noSepAtRender,
                                              step.entitySetAtRender)

\* the item texts of a span, separators left out
Texts(span) ==
  SelectSeq([j \in 1..Len(span.children) |-> span.children[j].text],
            LAMBDA t : t # NBSP)

Contents(items) == [j \in 1..Len(items) |-> items[j].content]

\* C4 as stated: a malformed result in a batch (no alternatives[0], or no
\* items) contributes no segment and raises no error: the handler completes
\* and every result of the batch is processed as usual.
C4_MalformedAbsorbed ==
  (lastEvent.kind = "transcript"
     /\ \E i \in 1..Len(lastEvent.results) : Malformed(lastEvent.results[i]))
  => /\ ProcessedToCompletion
     /\ \A i \in 1..Len(steps) :
          (Malformed(steps[i].result) /\ ~ThrowsOnAlternative(steps[i].result))
          => Built(steps[i]) = <<>>

\* C5 as stated: a Transcript event whose results are all well-formed is
\* processed to completion, whatever malformed results were received before.
C5_NoPipelineHalt ==
  (lastEvent.kind = "transcript"
     /\ \A i \in 1..Len(lastEvent.results) : ~Malformed(lastEvent.results[i]))
  => ProcessedToCompletion

WordsOnly(result) ==
  /\ ~Malformed(result)
  /\ \A j \in 1..Len(result.alternatives[1].items) :
       result.alternatives[1].items[j].type = "word"

\* C6 as stated: a result whose items are words only is built into exactly
\* one segment: it starts at the first item's startTimeMs (0 included), has
\* the first item's attendee, holds every item and ends at the result's
\* endTimeMs.
C6_WordsMakeOneSegment ==
  \A i \in 1..Len(steps) :
    (steps[i].threwAt = "none" /\ WordsOnly(steps[i].result))
    => /\ Len(Built(steps[i])) = 1
       /\ Built(steps[i])[1].startTimeMs
            = steps[i].result.alternatives[1].items[1].startTimeMs
       /\ Built(steps[i])[1].attendee = steps[i].result.alternatives[1].items[1].attendee
       /\ Texts(Built(steps[i])[1].contentSpan)
            = Contents(steps[i].result.alternatives[1].items)
       /\ Built(steps[i])[1].endTimeMs = steps[i].result.endTimeMs
       /\ \E k \in 1..Len(steps[i].rendered.segments) :
            steps[i].rendered.segments[k] = Built(steps[i])[1]

\* the results whose items are one or more words, then a punctuation item
WordsThenPunctuation(result, q) ==
  /\ ~Malformed(result)
  /\ q \in 2..Len(result.alternatives[1].items)
  /\ result.alternatives[1].items[q].type = "punctuation"
  /\ \A j \in 1..(q - 1) : result.alternatives[1].items[j].type = "word"

\* C10 as stated: a punctuation item met after the words of a run is
\* appended with no separator before it and closes the run as one segment:
\* its text is the words followed by the punctuation, it starts at the first
\* word's startTimeMs and ends at the punctuation's endTimeMs; the next item
\* starts a new run with its own startTimeMs and attendee.
C10_PunctuationClosesRun ==
  \A i \in 1..Len(steps) :
    \A q \in 2..(IF Malformed(steps[i].result) THEN 0
                 ELSE Len(steps[i].result.alternatives[1].items)) :
      (steps[i].threwAt = "none" /\ WordsThenPunctuation(steps[i].result, q))
      => /\ Len(Built(steps[i])) >= 1
         /\ Texts(Built(steps[i])[1].contentSpan)
              = Contents(SubSeq(steps[i].result.alternatives[1].items, 1, q))
         /\ Len(Built(steps[i])[1].contentSpan.children) >= 2
         /\ Built(steps[i])[1].contentSpan.children[
              Len(Built(steps[i])[1].contentSpan.children) - 1].text # NBSP
         /\ Built(steps[i])[1].startTimeMs
              = steps[i].result.alternatives[1].items[1].startTimeMs
         /\ Built(steps[i])[1].endTimeMs
              = steps[i].result.alternatives[1].items[q].endTimeMs
         /\ q < Len(steps[i].result.alternatives[1].items)
            => /\ Len(Built(steps[i])) >= 2
               /\ Built(steps[i])[2].startTimeMs
                    = steps[i].result.alternatives[1].items[q + 1].startTimeMs
               /\ Built(steps[i])[2].attendee
                    = steps[i].result.alternatives[1].items[q + 1].attendee

\* a STARTED status was received
StartedReceived ==
  \E n \in 1..Len(transcriptContainerDiv) :
    /\ transcriptContainerDiv[n].tag = "status"
    /\ transcriptContainerDiv[n].type = "started"

\* C7 as stated: after a STOPPED or FAILED status that follows a STARTED,
\* both maps are empty, the entity set is empty, the no-separator flag is
\* false and the block pointer is cleared; a Transcript result that opens a
\* new block is rendered from a Store that holds nothing but that result.
C7_StopClearsEverything ==
  /\ (lastEvent.kind = "status" /\ lastEvent.status.type \in {"stopped", "failed"}
        /\ StartedReceived)
     => /\ partialTranscriptResultMap = <<>>
        /\ partialTranscriptResultTimeMap = <<>>
        /\ transcriptEntitySet = {}
        /\ ~noWordSeparatorForTranscription
        /\ partialTranscriptDiv = NoDiv
  /\ (lastEvent.kind = "transcript" /\ steps[1].rendered.created)
     => KeySet(steps[1].resultMapAtRender) = {steps[1].result.resultId}

\* the segments a block's span holds, read back from the DOM: the span of the
\* segment that opened the block, then the spans appended to it
NestedAt(children) == {j \in 1..Len(children) : children[j].tag = "span"}

OpeningSpan(children) ==
  IF NestedAt(children) = {} THEN children
  ELSE SubSeq(children, 1, (CHOOSE j \in NestedAt(children) :
                              \A k \in NestedAt(children) : j <= k) - 2)

BlockSegments(block) ==
  <<[tag |-> "span", children |-> OpeningSpan(block.contentSpan.children)]>>
  \o SelectSeq(block.contentSpan.children, LAMBDA e : e.tag = "span")

RECURSIVE DomSegments(_)
DomSegments(blocks) ==
  IF blocks = <<>> THEN <<>>
  ELSE BlockSegments(Head(blocks)) \o DomSegments(Tail(blocks))

\* the segments of the Store in Map iteration order, before the sort
Collected(step) ==
  CollectSegments(<<>>, MapValues(step.resultMapAtRender), step.noSepAtRender,
                  step.entitySetAtRender)

\* where a stable ascending sort puts element j of c
StablePosition(c, j) ==
  Cardinality({k \in 1..Len(c) : c[k].startTimeMs < c[j].startTimeMs})
  + Cardinality({k \in 1..j : c[k].startTimeMs = c[j].startTimeMs})

RenderSteps == {i \in 1..Len(steps) : steps[i].threwAt = "none"}

\* C8: in every render pass the segments of all results of the Store are
\* rendered in non-decreasing startTimeMs order, whatever the insertion
\* order; segments with equal startTimeMs keep their Store iteration order.
C8_RenderedInStartTimeOrder ==
  \A i \in RenderSteps :
    /\ Len(steps[i].rendered.segments) = Len(Collected(steps[i]))
    /\ \A j \in 1..Len(Collected(steps[i])) :
         steps[i].rendered.segments[StablePosition(Collected(steps[i]), j)]
           = Collected(steps[i])[j]
    /\ \A j \in 1..(Len(steps[i].rendered.segments) - 1) :
         steps[i].rendered.segments[j].startTimeMs
           <= steps[i].rendered.segments[j + 1].startTimeMs
    /\ DomSegments(steps[i].rendered.children)
         = [j \in 1..Len(steps[i].rendered.segments) |->
              steps[i].rendered.segments[j].contentSpan]

\* a render pass over three results inserted out of time order, two of
\* whose segments start at the same time
C8_Witness ==
  \E i \in RenderSteps :
    /\ Len(steps[i].resultMapAtRender) = 3
    /\ \E j, k \in 1..Len(Collected(steps[i])) :
         j < k /\ Collected(steps[i])[j].startTimeMs > Collected(steps[i])[k].startTimeMs
    /\ \E j, k \in 1..Len(Collected(steps[i])) :
         /\ j < k
         /\ Collected(steps[i])[j].startTimeMs = Collected(steps[i])[k].startTimeMs
         /\ Collected(steps[i])[j] # Collected(steps[i])[k]

SameSpeaker(segments, j, k) ==
  segments[j].attendee.attendeeId = segments[k].attendee.attendeeId

\* the spans of the segments the walk placed in block b, in walk order
PlacedIn(rendered, b) ==
  SelectSeq([j \in 1..Len(rendered.segments) |->
               [span |-> rendered.segments[j].contentSpan, block |-> rendered.placed[j].block]],
            LAMBDA e : e.block = b)

\* C9: in a render pass a segment whose attendee is the attendee of the
\* segment sorted just before it is appended to that segment's span; a
\* segment whose attendee differs from the one before it opens a new speaker
\* block, also when its attendee had a span earlier in the pass (A, B, A and
\* a following B each open a block).
C9_SpeakerContinuity ==
  \A i \in RenderSteps :
    /\ Len(steps[i].rendered.placed) = Len(steps[i].rendered.segments)
    /\ \A j \in 1..Len(steps[i].rendered.segments) :
         IF j > 1 /\ SameSpeaker(steps[i].rendered.segments, j, j - 1)
         THEN steps[i].rendered.placed[j]
                = [block |-> steps[i].rendered.placed[j - 1].block, how |-> "append"]
         ELSE steps[i].rendered.placed[j]
                = [block |-> (IF j = 1 THEN 1 ELSE steps[i].rendered.placed[j - 1].block + 1),
                   how |-> "new"]
    /\ \A b \in 1..Len(steps[i].rendered.children) :
         /\ BlockSegments(steps[i].rendered.children[b])
              = [t \in 1..Len(PlacedIn(steps[i].rendered, b)) |->
                   PlacedIn(steps[i].rendered, b)[t].span]
         /\ \E j \in 1..Len(steps[i].rendered.segments) :
              /\ steps[i].rendered.placed[j] = [block |-> b, how |-> "new"]
              /\ steps[i].rendered.children[b].speakerSpan
                   = SpeakerLabel(steps[i].rendered.segments[j].attendee)

\* a render pass with two consecutive segments of one attendee, then the
\* pattern A, B, A, B
C9_Witness ==
  \E i \in RenderSteps :
    \E j \in 2..(Len(steps[i].rendered.segments) - 3) :
      /\ SameSpeaker(steps[i].rendered.segments, j, j - 1)
      /\ ~SameSpeaker(steps[i].rendered.segments, j, j + 1)
      /\ SameSpeaker(steps[i].rendered.segments, j, j + 2)
      /\ SameSpeaker(steps[i].rendered.segments, j + 1, j + 3)
      /\ steps[i].rendered.placed[j].how = "append"
      /\ steps[i].rendered.placed[j + 2].how = "new"
      /\ steps[i].rendered.placed[j + 3].how = "new"
      /\ Len(steps[i].rendered.children) = steps[i].rendered.placed[j + 3].block

\* ---- the state an iteration of the last handler call started in

LastStep(log) == log[Len(log)]

\* iteration i follows another iteration: an earlier one of the same call,
\* or the last one of the call before
HasPrior(i) == i > 1 \/ previous.steps # <<>>

PriorStep(i) == IF i > 1 THEN steps[i - 1] ELSE LastStep(previous.steps)

\* the fields as iteration i of the last handler call found them
BeforeStep(i) ==
  IF i > 1
  THEN [resultMap |-> steps[i - 1].resultMapAfter,
        timeMap |-> steps[i - 1].timeMapAfter,
        entitySet |-> steps[i - 1].entitySetAfter,
        noSep |-> steps[i - 1].noSepAtRender,
        div |-> steps[i - 1].divAfter]
  ELSE [resultMap |-> previous.partialTranscriptResultMap,
        timeMap |-> previous.partialTranscriptResultTimeMap,
        entitySet |-> previous.transcriptEntitySet,
        noSep |-> previous.noWordSeparatorForTranscription,
        div |-> previous.partialTranscriptDiv]

\* the iterations that process a partial result which the iteration just
\* before them processed too
Redeliveries ==
  {i \in 1..Len(steps) :
     /\ HasPrior(i)
     /\ steps[i].result.isPartial
     /\ PriorStep(i).result = steps[i].result}

\* C11: delivering the same partial result (same resultId, content and
\* endTimeMs) a second time leaves both maps as they were (keys, values, end
\* times, iteration order), and its render pass produces the segment list and
\* the block structure of the first delivery, in the same block div.
C11_UpsertIdempotent ==
  \A i \in Redeliveries :
    /\ steps[i].resultMapAtRender = BeforeStep(i).resultMap
    /\ steps[i].timeMapAtRender = BeforeStep(i).timeMap
    /\ steps[i].resultMapAfter = BeforeStep(i).resultMap
    /\ steps[i].timeMapAfter = BeforeStep(i).timeMap
    /\ steps[i].threwAt = PriorStep(i).threwAt
    /\ steps[i].rendered.segments = PriorStep(i).rendered.segments
    /\ steps[i].rendered.placed = PriorStep(i).rendered.placed
    /\ steps[i].rendered.children = PriorStep(i).rendered.children
    /\ steps[i].rendered.div = PriorStep(i).rendered.div
    /\ ~steps[i].rendered.created
    /\ i = 1 => steps[i].rendered.children = previous.divs[previous.partialTranscriptDiv]
    /\ (i = 1 /\ Len(steps) = 1)
         => transcriptContainerDiv = previous.transcriptContainerDiv

\* a partial result delivered again by the next handler call, while a
\* result inserted after it is resident and the block holds several
\* speaker blocks
C11_Witness ==
  /\ 1 \in Redeliveries
  /\ Len(steps[1].resultMapAtRender) >= 2
  /\ steps[1].resultMapAtRender[Len(steps[1].resultMapAtRender)].key
       # steps[1].result.resultId
  /\ Len(steps[1].rendered.children) >= 2
  /\ divs[partialTranscriptDiv] = steps[1].rendered.children

\* ---- the word separator flag

StatusLines == SelectSeq(transcriptContainerDiv, LAMBDA e : e.tag = "status")

\* the language codes a status payload configures, in either settings shape
ConfiguredCodes(configuration) ==
  IF configuration.isNull THEN {}
  ELSE (IF configuration.EngineTranscribeSettings.present
        THEN {configuration.EngineTranscribeSettings.LanguageCode} ELSE {})
       \cup (IF configuration.EngineTranscribeMedicalSettings.present
             THEN {configuration.EngineTranscribeMedicalSettings.languageCode} ELSE {})

NoSeparatorLanguage(status) ==
  ConfiguredCodes(status.transcriptionConfiguration) \cap {"ja-JP", "zh-CN"} # {}

\* a STARTED status that configures ja-JP or zh-CN was received and no
\* STOPPED or FAILED status after it
NoSeparatorSession ==
  \E n \in 1..Len(StatusLines) :
    /\ StatusLines[n].type = "started"
    /\ NoSeparatorLanguage(StatusLines[n])
    /\ \A k \in (n + 1)..Len(StatusLines) : StatusLines[k].type = "started"

HasSeparator(segment) ==
  \E j \in 1..Len(segment.contentSpan.children) :
    segment.contentSpan.children[j] = createSpaceSpan

\* C12: after a STARTED status whose configured language code is ja-JP or
\* zh-CN (in the EngineTranscribeSettings or the EngineTranscribeMedicalSettings
\* shape), every segment built until the next STOPPED or FAILED holds its
\* item spans with no separator span between them.
C12_NoSeparatorUntilStop ==
  (lastEvent.kind = "transcript" /\ NoSeparatorSession)
  => \A i \in 1..Len(steps) :
       /\ steps[i].noSepAtRender
       /\ \A j \in 1..Len(steps[i].rendered.segments) :
            /\ ~HasSeparator(steps[i].rendered.segments[j])
            /\ Len(steps[i].rendered.segments[j].contentSpan.children)
                 = Len(Texts(steps[i].rendered.segments[j].contentSpan))

\* a segment of three items built with no separator in a session started
\* with the medical settings, after a later STARTED that configures en-US
C12_Witness ==
  /\ lastEvent.kind = "transcript"
  /\ NoSeparatorSession
  /\ \E n \in 1..Len(StatusLines) :
       /\ StatusLines[n].transcriptionConfiguration.EngineTranscribeMedicalSettings.present
       /\ NoSeparatorLanguage(StatusLines[n])
  /\ ~NoSeparatorLanguage(StatusLines[Len(StatusLines)])
  /\ \E i \in 1..Len(steps) :
       \E j \in 1..Len(steps[i].rendered.segments) :
         /\ Len(steps[i].rendered.segments[j].contentSpan.children) >= 3
         /\ ~HasSeparator(steps[i].rendered.segments[j])

\* C13 as stated: immediately after a STARTED status the flag is true if and
\* only if the language code that status configures is ja-JP or zh-CN,
\* whatever the flag was before.
C13_StartedDerivesFlag ==
  (lastEvent.kind = "status" /\ lastEvent.status.type = "started")
  => (noWordSeparatorForTranscription <=> NoSeparatorLanguage(lastEvent.status))

NoSeparatorResult(result) == result.languageCode \in LANGUAGES_NO_WORD_SEPARATOR

\* C14 as stated: processing a Transcript event leaves the flag as it was,
\* whatever languageCode its results carry.
C14_TranscriptKeepsFlag ==
  lastEvent.kind = "transcript"
  => noWordSeparatorForTranscription = previous.noWordSeparatorForTranscription

\* C14 amended: processing a Transcript event never sets the flag to false;
\* it sets the flag to true when a result it processes carries the
\* languageCode ja-JP or zh-CN, and leaves it as it was otherwise. The
\* segments of that result's render pass are built with the flag already set.
C14_TranscriptRaisesFlag ==
  lastEvent.kind = "transcript"
  => /\ noWordSeparatorForTranscription
          <=> \/ previous.noWordSeparatorForTranscription
              \/ \E i \in 1..Len(steps) : NoSeparatorResult(steps[i].result)
     /\ \A i \in 1..Len(steps) :
          steps[i].noSepAtRender
            <=> \/ previous.noWordSeparatorForTranscription
                \/ \E k \in 1..i : NoSeparatorResult(steps[k].result)

\* a Transcript event whose second result carries zh-CN raised the flag
C14_Witness ==
  /\ lastEvent.kind = "transcript"
  /\ ~previous.noWordSeparatorForTranscription
  /\ noWordSeparatorForTranscription
  /\ Len(steps) = 2
  /\ ~steps[1].noSepAtRender
  /\ steps[2].noSepAtRender
  /\ \E j \in 1..Len(steps[1].rendered.segments) : HasSeparator(steps[1].rendered.segments[j])
  /\ \A j \in 1..Len(steps[2].rendered.segments) : ~HasSeparator(steps[2].rendered.segments[j])

\* ---- confidence and entity highlighting

RECURSIVE Flatten(_)
Flatten(seqs) == IF seqs = <<>> THEN <<>> ELSE Head(seqs) \o Flatten(Tail(seqs))

\* the item spans of a list of segments, separators left out
ItemSpans(segments) ==
  Flatten([j \in 1..Len(segments) |->
             SelectSeq(segments[j].contentSpan.children, LAMBDA e : e # createSpaceSpan)])

\* the items of every result of a Store, in iteration order
StoreItems(resultMap) ==
  Flatten([j \in 1..Len(resultMap) |-> resultMap[j].value.alternatives[1].items])

LowConfidenceStyled(span) == "confidence-style" \in span.classes

EntityStyled(span) == "entity-color" \in span.classes

\* C15: an item is rendered with the low-confidence style if and only if it
\* carries a confidence, its content does not start with '[' and its
\* confidence is below 0.3; "[NAME]" with confidence 0 is never styled
\* low-confidence; the entity style is set exactly when the entity set holds
\* the item's content, whatever the confidence.
C15_LowConfidenceStyle ==
  \A i \in RenderSteps :
    /\ Len(ItemSpans(Collected(steps[i]))) = Len(StoreItems(steps[i].resultMapAtRender))
    /\ \A k \in 1..Len(StoreItems(steps[i].resultMapAtRender)) :
         /\ ItemSpans(Collected(steps[i]))[k].text
              = StoreItems(steps[i].resultMapAtRender)[k].content
         /\ LowConfidenceStyled(ItemSpans(Collected(steps[i]))[k])
              <=> /\ StoreItems(steps[i].resultMapAtRender)[k].hasConfidence
                  /\ ~StartsWithBracket(StoreItems(steps[i].resultMapAtRender)[k].content)
                  /\ StoreItems(steps[i].resultMapAtRender)[k].confidence < 30
         /\ EntityStyled(ItemSpans(Collected(steps[i]))[k])
              <=> StoreItems(steps[i].resultMapAtRender)[k].content
                    \in steps[i].entitySetAtRender
    /\ \A k \in 1..Len(ItemSpans(steps[i].rendered.segments)) :
         /\ \E n \in 1..Len(ItemSpans(Collected(steps[i]))) :
              ItemSpans(Collected(steps[i]))[n] = ItemSpans(steps[i].rendered.segments)[k]
         /\ ItemSpans(steps[i].rendered.segments)[k].text = "[NAME]"
              => ~LowConfidenceStyled(ItemSpans(steps[i].rendered.segments)[k])
    /\ Len(ItemSpans(steps[i].rendered.segments)) = Len(ItemSpans(Collected(steps[i])))

\* one render pass shows the four combinations of the two styles, with
\* "[NAME]" (confidence 0) entity-styled only and an item at confidence 0.3
\* not styled
C15_Witness ==
  \E i \in RenderSteps :
    /\ \A low, entity \in BOOLEAN :
         \E k \in 1..Len(ItemSpans(steps[i].rendered.segments)) :
           /\ LowConfidenceStyled(ItemSpans(steps[i].rendered.segments)[k]) = low
           /\ EntityStyled(ItemSpans(steps[i].rendered.segments)[k]) = entity
    /\ \E k \in 1..Len(ItemSpans(steps[i].rendered.segments)) :
         /\ ItemSpans(steps[i].rendered.segments)[k].text = "[NAME]"
         /\ ItemSpans(steps[i].rendered.segments)[k].classes
              = {"transcript-content", "entity-color"}
    /\ \E k \in 1..Len(ItemSpans(steps[i].rendered.segments)) :
         /\ ItemSpans(steps[i].rendered.segments)[k].text = "sure"
         /\ ItemSpans(steps[i].rendered.segments)[k].classes = {"transcript-content"}

\* ---- the enabled flag

StopEvent ==
  lastEvent.kind = "status" /\ lastEvent.status.type \in {"stopped", "failed"}

\* C16: enableLiveTranscription is false after initialisation; an event of
\* any kind received while it is false sets it to true before the event is
\* handled, so that it is true after every event but a STOPPED or FAILED,
\* which is handled with the flag true; after a STARTED or a Transcript
\* event the flag is true.
C16_EnabledByFirstEvent ==
  /\ nEvents = 0 => ~enableLiveTranscription
  /\ (nEvents > 0 /\ ~StopEvent) => enableLiveTranscription
  /\ (nEvents > 0 /\ StopEvent /\ ~previous.enableLiveTranscription)
       => /\ ~enableLiveTranscription
          /\ partialTranscriptResultMap = <<>>
          /\ partialTranscriptResultTimeMap = <<>>
          /\ partialTranscriptDiv = NoDiv

\* an INTERRUPTED status received after a STOPPED, while the flag was false,
\* set it to true
C16_Witness ==
  /\ nEvents > 1
  /\ lastEvent.kind = "status"
  /\ lastEvent.status.type = "interrupted"
  /\ previous.lastEvent.kind = "status"
  /\ previous.lastEvent.status.type = "stopped"
  /\ ~previous.enableLiveTranscription
  /\ enableLiveTranscription

\* ---- the block pointer

\* the block divs of the container, in document order
BlockIds ==
  LET blocks == SelectSeq(transcriptContainerDiv, LAMBDA e : e.tag = "div")
  IN  [n \in 1..Len(blocks) |-> blocks[n].id]

\* C17: after a handler call that returned normally partialTranscriptDiv is
\* null if and only if no key is tracked. A finalization that removes the
\* last tracked key retires the block, and the next result creates a fresh
\* one and appends it to the container; while a key is tracked every render
\* updates the same block and creates none.
C17_BlockRetiredWhenUntracked ==
  /\ ~threw => /\ partialTranscriptDiv = NoDiv <=> partialTranscriptResultTimeMap = <<>>
               /\ partialTranscriptDiv = NoDiv <=> partialTranscriptResultMap = <<>>
  /\ \A i \in RenderSteps :
       /\ steps[i].divAfter = NoDiv <=> steps[i].timeMapAfter = <<>>
       /\ steps[i].divAfter # NoDiv => steps[i].divAfter = steps[i].rendered.div
       /\ steps[i].rendered.created <=> BeforeStep(i).div = NoDiv
       /\ BeforeStep(i).timeMap # <<>>
            => /\ ~steps[i].rendered.created
               /\ steps[i].rendered.div = BeforeStep(i).div
       /\ steps[i].rendered.created
            => /\ steps[i].rendered.div > Len(previous.divs)
               /\ \A k \in 1..(i - 1) : steps[k].rendered.div # steps[i].rendered.div
               /\ \E n \in 1..Len(BlockIds) : BlockIds[n] = steps[i].rendered.div
  /\ \A n, m \in 1..Len(BlockIds) : BlockIds[n] = BlockIds[m] => n = m

\* a render that reused the block of the call before, then a batch whose
\* finalized result retired that block and whose next result opened a
\* fresh one
C17_Witness ==
  /\ ~threw
  /\ Len(previous.steps) = 1
  /\ ~previous.steps[1].rendered.created
  /\ previous.partialTranscriptDiv # NoDiv
  /\ Len(steps) = 2
  /\ ~steps[1].rendered.created
  /\ steps[1].rendered.div = previous.partialTranscriptDiv
  /\ steps[1].divAfter = NoDiv
  /\ steps[2].rendered.created
  /\ steps[2].rendered.div # steps[1].rendered.div
  /\ partialTranscriptDiv = steps[2].rendered.div

\* ---- the entity set

\* the entity tokens of the result of a logged iteration, none for a partial
\* result
OwnEntityTokens(step) ==
  IF step.result.isPartial \/ ThrowsOnAlternative(step.result) THEN {}
  ELSE EntityTokens(step.result)

\* C18 as stated: transcriptEntitySet is populated only while a finalized
\* result is processed and emptied at the end of that result's processing:
\* it is empty after every handler call and when the processing of each
\* result starts, a partial result adds nothing to it, and a render pass
\* sees no entity token of an earlier result.
C18_EntitySetLifetime ==
  /\ transcriptEntitySet = {}
  /\ \A i \in 1..Len(steps) :
       /\ BeforeStep(i).entitySet = {}
       /\ steps[i].entitySetAtRender = OwnEntityTokens(steps[i])
       /\ steps[i].threwAt = "none" => steps[i].entitySetAfter = {}

\* ---- the order of the steps of a handler call

BatchIds == {lastEvent.results[k].resultId : k \in 1..Len(lastEvent.results)}

\* C19 as stated: every result of a batch is in the Store before any render
\* pass of the handler call runs, so each pass sees all results of the
\* batch and the batch is rendered into one block.
C19_BatchUpsertedBeforeRender ==
  (lastEvent.kind = "transcript" /\ ProcessedToCompletion)
  => \A i \in 1..Len(steps) :
       /\ BatchIds \subseteq KeySet(steps[i].resultMapAtRender)
       /\ steps[i].rendered.div = steps[1].rendered.div

\* the Map m after set(k, v), written out
AfterSet(m, k, v) ==
  IF k \in KeySet(m)
  THEN [n \in 1..Len(m) |-> [key |-> m[n].key, value |-> IF m[n].key = k THEN v ELSE m[n].value]]
  ELSE m \o <<[key |-> k, value |-> v]>>

\* C19 amended: the results of a batch are processed one at a time, in batch
\* order: each result is put into both maps and a render pass runs at once,
\* before the next result of the batch is looked at. The pass of a result
\* sees the Store as the iteration before left it plus that result, so it
\* sees a later result of the batch only if that was resident before; a
\* batch processed to completion ran one render pass per result.
C19_EachResultRenderedInTurn ==
  lastEvent.kind = "transcript"
  => /\ \A i \in RenderSteps :
          /\ steps[i].result = lastEvent.results[i]
          /\ steps[i].resultMapAtRender
               = AfterSet(BeforeStep(i).resultMap, steps[i].result.resultId, steps[i].result)
          /\ steps[i].timeMapAtRender
               = AfterSet(BeforeStep(i).timeMap, steps[i].result.resultId,
                          steps[i].result.endTimeMs)
          /\ steps[i].rendered.div # NoDiv
     /\ ProcessedToCompletion => RenderSteps = 1..Len(lastEvent.results)

\* the batch [finalized r1, partial r2] on an empty Store: r1 was rendered
\* alone into a block that was retired, r2 alone into a fresh block
C19_Witness ==
  /\ lastEvent.kind = "transcript"
  /\ ProcessedToCompletion
  /\ previous.partialTranscriptResultMap = <<>>
  /\ Len(steps) = 2
  /\ ~steps[1].result.isPartial
  /\ steps[2].result.isPartial
  /\ KeySet(steps[1].resultMapAtRender) = {steps[1].result.resultId}
  /\ KeySet(steps[2].resultMapAtRender) = {steps[2].result.resultId}
  /\ steps[1].result.resultId # steps[2].result.resultId
  /\ steps[1].rendered.div # steps[2].rendered.div
  /\ Len(steps[1].rendered.segments) = 1
  /\ Len(steps[2].rendered.segments) = 1

\* the entries of the time map that the processing of finalized result R
\* leaves: R's own entry goes, and so does each stale entry that precedes it
KeptEntries(step) ==
  SelectSeq(step.timeMapAtRender,
            LAMBDA e :
              /\ e.key # step.result.resultId
              /\ ~(/\ e.key \in StaleKeys(step)
                   /\ Position(step.timeMapAtRender, e.key)
                        < Position(step.timeMapAtRender, step.result.resultId)))

\* the render pass of a logged iteration shows the item texts of result r
ShowsResult(step, r) ==
  \A j \in 1..Len(r.alternatives[1].items) :
    \E k \in 1..Len(ItemSpans(step.rendered.segments)) :
      ItemSpans(step.rendered.segments)[k].text = r.alternatives[1].items[j].content

\* C20: for a finalized result the entity tokens are added first; then the
\* render pass runs, which styles those tokens and still shows the stale
\* partial results; then the stale keys before its key are evicted and its
\* own key is removed; then the entity set is cleared; and only then is the
\* block retired and the result map emptied if no key is left.
C20_FinalizedResultStepOrder ==
  \A i \in FinalizedSteps :
    /\ steps[i].entitySetAtRender
         = BeforeStep(i).entitySet \cup EntityTokens(steps[i].result)
    /\ \A k \in 1..Len(ItemSpans(steps[i].rendered.segments)) :
         ItemSpans(steps[i].rendered.segments)[k].text \in EntityTokens(steps[i].result)
         => EntityStyled(ItemSpans(steps[i].rendered.segments)[k])
    /\ steps[i].timeMapAtRender
         = AfterSet(BeforeStep(i).timeMap, steps[i].result.resultId,
                    steps[i].result.endTimeMs)
    /\ steps[i].resultMapAtRender
         = AfterSet(BeforeStep(i).resultMap, steps[i].result.resultId, steps[i].result)
    /\ \A k \in StaleKeys(steps[i]) :
         ShowsResult(steps[i], MapGet(steps[i].resultMapAtRender, k))
    /\ steps[i].timeMapAfter = KeptEntries(steps[i])
    /\ steps[i].entitySetAfter = {}
    /\ IF steps[i].timeMapAfter = <<>>
       THEN steps[i].divAfter = NoDiv /\ steps[i].resultMapAfter = <<>>
       ELSE /\ steps[i].divAfter = steps[i].rendered.div
            /\ steps[i].resultMapAfter = steps[i].resultMapAtRender

\* a finalized result with entities, processed while a stale partial result
\* inserted before it was resident: the pass styled its entity token and
\* showed the stale result, which was then evicted, and the block retired
C20_Witness ==
  \E i \in FinalizedSteps :
    /\ EntityTokens(steps[i].result) # {}
    /\ \E k \in 1..Len(ItemSpans(steps[i].rendered.segments)) :
         EntityStyled(ItemSpans(steps[i].rendered.segments)[k])
    /\ \E k \in StaleKeys(steps[i]) :
         /\ Position(steps[i].timeMapAtRender, k)
              < Position(steps[i].timeMapAtRender, steps[i].result.resultId)
         /\ ShowsResult(steps[i], MapGet(steps[i].resultMapAtRender, k))
         /\ ~MapHas(steps[i].timeMapAfter, k)
    /\ steps[i].timeMapAfter = <<>>
    /\ steps[i].divAfter = NoDiv
    /\ steps[i].entitySetAfter = {}

\* ---- word separation

IsSeparator(span) == span = createSpaceSpan

\* the spans of the segments built from one result, separators included
ResultChildren(step, result) ==
  Flatten([j \in 1..Len(populatePartialTranscriptSegmentsFromResult(
                           <<>>, result, step.noSepAtRender, step.entitySetAtRender)) |->
             populatePartialTranscriptSegmentsFromResult(
               <<>>, result, step.noSepAtRender, step.entitySetAtRender)[j].contentSpan.children])

\* where the k-th item span stands among the spans ch
ItemPosition(ch, k) ==
  CHOOSE p \in 1..Len(ch) :
    /\ ~IsSeparator(ch[p])
    /\ Cardinality({q \in 1..p : ~IsSeparator(ch[q])}) = k

\* item k opens a run: it is the first item of the result, or it follows the
\* punctuation that closed the run before
RECURSIVE FirstOfRun(_, _)
FirstOfRun(items, k) ==
  IF k = 1 THEN TRUE
  ELSE items[k - 1].type = "punctuation" /\ ~FirstOfRun(items, k - 1)

\* the spans ch hold the items, each preceded by the separators that the
\* rule of word separation gives it
SeparatedByRule(ch, items, noSep) ==
  /\ Len(SelectSeq(ch, LAMBDA e : ~IsSeparator(e))) = Len(items)
  /\ ~IsSeparator(ch[Len(ch)])
  /\ \A k \in 1..Len(items) :
       /\ ch[ItemPosition(ch, k)].text = items[k].content
       /\ (ItemPosition(ch, k) > 1 /\ IsSeparator(ch[ItemPosition(ch, k) - 1]))
            <=> (~noSep /\ ~FirstOfRun(items, k) /\ items[k].type # "punctuation")
       /\ ItemPosition(ch, k) > 2
            => ~(IsSeparator(ch[ItemPosition(ch, k) - 1])
                   /\ IsSeparator(ch[ItemPosition(ch, k) - 2]))

\* C21 as stated: in the segments built from a result, with the flag false
\* exactly one non-breaking-space span precedes each item that is neither
\* the first of its run nor punctuation, and none precedes the first item
\* of a run or a punctuation item; with the flag true no separator span is
\* inserted.
C21_WordSeparation ==
  \A i \in RenderSteps :
    \A n \in 1..Len(steps[i].resultMapAtRender) :
      Len(steps[i].resultMapAtRender[n].value.alternatives[1].items) > 0
      => /\ SeparatedByRule(ResultChildren(steps[i], steps[i].resultMapAtRender[n].value),
                            steps[i].resultMapAtRender[n].value.alternatives[1].items,
                            steps[i].noSepAtRender)
         /\ \A k \in 1..Len(ResultChildren(steps[i], steps[i].resultMapAtRender[n].value)) :
              \E m \in 1..Len(steps[i].rendered.segments) :
                \E q \in 1..Len(steps[i].rendered.segments[m].contentSpan.children) :
                  steps[i].rendered.segments[m].contentSpan.children[q]
                    = ResultChildren(steps[i], steps[i].resultMapAtRender[n].value)[k]

\* ---- status lines

PreviousStatusLines ==
  SelectSeq(previous.transcriptContainerDiv, LAMBDA e : e.tag = "status")

\* C22: every status event, whatever its type and the state it finds,
\* appends exactly one status line to the transcript container, after
\* everything already there, and touches no block; a Transcript event
\* appends no status line; so there are as many status lines as status
\* events.
C22_OneLinePerStatusEvent ==
  /\ lastEvent.kind = "none" => StatusLines = <<>>
  /\ lastEvent.kind = "status"
       => /\ Len(transcriptContainerDiv) = Len(previous.transcriptContainerDiv) + 1
          /\ SubSeq(transcriptContainerDiv, 1, Len(previous.transcriptContainerDiv))
               = previous.transcriptContainerDiv
          /\ transcriptContainerDiv[Len(transcriptContainerDiv)].tag = "status"
          /\ transcriptContainerDiv[Len(transcriptContainerDiv)].type = lastEvent.status.type
          /\ divs = previous.divs
          /\ Len(StatusLines) = Len(PreviousStatusLines) + 1
  /\ lastEvent.kind = "transcript" => StatusLines = PreviousStatusLines
  /\ Len(StatusLines) <= nEvents
  /\ \A d \in 1..Len(divs) : \A j \in 1..Len(divs[d]) : divs[d][j].tag # "status"

\* a STOPPED or FAILED received while a block with text is live: its line
\* follows the block in the container, and the block is as it was
C22_Witness ==
  /\ StopEvent
  /\ previous.partialTranscriptDiv # NoDiv
  /\ previous.divs[previous.partialTranscriptDiv] # <<>>
  /\ Len(StatusLines) >= 2
  /\ transcriptContainerDiv[Len(transcriptContainerDiv) - 1]
       = [tag |-> "div", id |-> previous.partialTranscriptDiv]
  /\ C22_OneLinePerStatusEvent

\* ---- the two maps

\* C23: the keys of partialTranscriptResultTimeMap are keys of
\* partialTranscriptResultMap in every state, also between the iterations
\* of a handler call. Eviction and finalization delete from the time map
\* only; the result map loses entries only by being cleared as a whole,
\* when the time map has become empty or on a STOPPED or FAILED status.
C23_TrackedKeysAreStored ==
  /\ KeySet(partialTranscriptResultTimeMap) \subseteq KeySet(partialTranscriptResultMap)
  /\ \A i \in 1..Len(steps) :
       /\ KeySet(steps[i].timeMapAtRender) \subseteq KeySet(steps[i].resultMapAtRender)
       /\ KeySet(steps[i].timeMapAfter) \subseteq KeySet(steps[i].resultMapAfter)
       /\ KeySet(BeforeStep(i).resultMap) \subseteq KeySet(steps[i].resultMapAtRender)
       /\ KeySet(steps[i].timeMapAfter) \subseteq KeySet(steps[i].timeMapAtRender)
       /\ \/ steps[i].resultMapAfter = steps[i].resultMapAtRender
          \/ steps[i].resultMapAfter = <<>> /\ steps[i].timeMapAfter = <<>>
  /\ lastEvent.kind = "status"
       => \/ partialTranscriptResultMap = previous.partialTranscriptResultMap
          \/ /\ StopEvent
             /\ partialTranscriptResultMap = <<>>
             /\ partialTranscriptResultTimeMap = <<>>

\* a finalization that evicted a stale key and removed its own while another
\* key stays tracked: the result map still holds all three results
C23_Witness ==
  \E i \in RenderSteps :
    /\ ~steps[i].result.isPartial
    /\ Cardinality(KeySet(steps[i].timeMapAtRender))
         >= Cardinality(KeySet(steps[i].timeMapAfter)) + 2
    /\ steps[i].timeMapAfter # <<>>
    /\ steps[i].resultMapAfter = steps[i].resultMapAtRender
    /\ KeySet(steps[i].timeMapAfter) # KeySet(steps[i].resultMapAfter)
    /\ i = Len(steps)
    /\ C23_TrackedKeysAreStored

\* ---- text retention

\* the item texts a block shows, given the children of its div
SpanTexts(span) == {Texts(span)[k] : k \in 1..Len(Texts(span))}

BlockTexts(children) ==
  UNION {SpanTexts(DomSegments(children)[j]) : j \in 1..Len(DomSegments(children))}

\* the children of the current block as iteration i of the last handler
\* call found them
BlockBefore(i) ==
  IF i > 1
  THEN (IF steps[i - 1].divAfter # NoDiv THEN steps[i - 1].rendered.children ELSE <<>>)
  ELSE (IF previous.partialTranscriptDiv # NoDiv
        THEN previous.divs[previous.partialTranscriptDiv] ELSE <<>>)

\* the item texts of result r are all among texts
ShownAmong(texts, r) ==
  /\ ~ThrowsOnAlternative(r)
  /\ Len(r.alternatives[1].items) > 0
  /\ \A j \in 1..Len(r.alternatives[1].items) : r.alternatives[1].items[j].content \in texts

\* the iterations of the last handler call in which a render pass ran
PassSteps == {i \in 1..Len(steps) : steps[i].threwAt # "entities"}

\* C24 as stated: the text of a result, finalized or evicted ones included,
\* is not lost while its block is live: if the current block shows a
\* result when a render pass starts, the block after the pass shows that
\* result again, with its latest content.
C24_TextKeptWhileBlockLive ==
  \A i \in PassSteps :
    BeforeStep(i).div # NoDiv
    => \A n \in 1..Len(BeforeStep(i).resultMap) :
         ShownAmong(BlockTexts(BlockBefore(i)), BeforeStep(i).resultMap[n].value)
         => ShownAmong(BlockTexts(steps[i].rendered.children),
                       MapGet(steps[i].resultMapAtRender, BeforeStep(i).resultMap[n].key))

\* ---- retired blocks

\* the divs that existed before the last handler call and were not its
\* current block
RetiredBefore ==
  {d \in 1..Len(previous.divs) : d # previous.partialTranscriptDiv}

\* C25: a retired block is frozen. A handler call changes no block that was
\* retired before it and nothing that was in the container before it: a
\* render pass rewrites the current block or, when there is none, a div
\* created after every existing one, and status lines and new blocks are
\* appended at the end of the container.
C25_RetiredBlockFrozen ==
  /\ Len(divs) >= Len(previous.divs)
  /\ \A d \in RetiredBefore : divs[d] = previous.divs[d]
  /\ Len(transcriptContainerDiv) >= Len(previous.transcriptContainerDiv)
  /\ SubSeq(transcriptContainerDiv, 1, Len(previous.transcriptContainerDiv))
       = previous.transcriptContainerDiv
  /\ lastEvent.kind = "status" => divs = previous.divs
  /\ \A i \in PassSteps :
       /\ BeforeStep(i).div # NoDiv => steps[i].rendered.div = BeforeStep(i).div
       /\ BeforeStep(i).div = NoDiv
            => /\ steps[i].rendered.created
               /\ steps[i].rendered.div > Len(previous.divs)
               /\ \A j \in 1..(i - 1) : steps[i].rendered.div > steps[j].rendered.div

\* a Transcript event arrives after a block with text was retired and
\* renders into a new block; the retired block is as it was
C25_Witness ==
  /\ lastEvent.kind = "transcript"
  /\ \E d \in RetiredBefore : previous.divs[d] # <<>> /\ divs[d] = previous.divs[d]
  /\ previous.partialTranscriptDiv = NoDiv
  /\ \E i \in RenderSteps : steps[i].rendered.created /\ steps[i].rendered.children # <<>>
  /\ divs # previous.divs
  /\ C25_RetiredBlockFrozen

\* ---- speaker runs

\* the segments of a render pass that start a maximal run of consecutive
\* segments of one attendee
RunStarts(segments) ==
  {j \in 1..Len(segments) : j = 1 \/ ~SameSpeaker(segments, j, j - 1)}

\* the number of speaker blocks open once segment j is placed
BlocksOpenedBy(rendered, j) ==
  Cardinality({k \in 1..j : rendered.placed[k].how = "new"})

\* C26: in a render pass, once a segment is placed the most recently opened
\* speaker block is the one it went into and carries the label of its
\* attendee; so a segment is appended to an existing span exactly when the
\* segment sorted just before it has the same attendeeId, and the pass
\* produces one speaker block per maximal run of consecutive segments of
\* one attendee.
C26_OneBlockPerSpeakerRun ==
  \A i \in RenderSteps :
    /\ \A j \in 1..Len(steps[i].rendered.segments) :
         /\ steps[i].rendered.placed[j].block = BlocksOpenedBy(steps[i].rendered, j)
         /\ steps[i].rendered.children[BlocksOpenedBy(steps[i].rendered, j)].speakerSpan
              = SpeakerLabel(steps[i].rendered.segments[j].attendee)
         /\ steps[i].rendered.placed[j].how = "append"
              <=> (j > 1 /\ SameSpeaker(steps[i].rendered.segments, j, j - 1))
    /\ Len(steps[i].rendered.children) = Cardinality(RunStarts(steps[i].rendered.segments))

\* a pass with fewer blocks than segments in which the attendee of the
\* first block opens a later block again
C26_Witness ==
  \E i \in RenderSteps :
    /\ Len(steps[i].rendered.children) >= 3
    /\ Len(steps[i].rendered.children) < Len(steps[i].rendered.segments)
    /\ \E b \in 3..Len(steps[i].rendered.children) :
         steps[i].rendered.children[b].speakerSpan = steps[i].rendered.children[1].speakerSpan
    /\ Len(steps[i].rendered.children) = Cardinality(RunStarts(steps[i].rendered.segments))

\* ---- the reset on STOPPED and FAILED

\* C27: the guard on enableLiveTranscription never blocks the reset: every
\* STOPPED or FAILED status, also one received while the flag was false or
\* as the first event, leaves the flag false, both maps empty and the block
\* pointer null; after any handler call the flag is false exactly when the
\* last event was a STOPPED or FAILED, and before the first event.
C27_StopAlwaysResets ==
  /\ StopEvent
       => /\ ~enableLiveTranscription
          /\ partialTranscriptResultMap = <<>>
          /\ partialTranscriptResultTimeMap = <<>>
          /\ partialTranscriptDiv = NoDiv
  /\ ~enableLiveTranscription <=> (lastEvent.kind = "none" \/ StopEvent)
  /\ lastEvent.kind = "none" <=> nEvents = 0

\* a FAILED status received right after a STOPPED, while the flag was false
C27_Witness ==
  /\ StopEvent
  /\ lastEvent.status.type = "failed"
  /\ previous.lastEvent.kind = "status"
  /\ previous.lastEvent.status.type = "stopped"
  /\ ~previous.enableLiveTranscription
  /\ ~enableLiveTranscription
  /\ Len(StatusLines) = Len(PreviousStatusLines) + 1

\* ---- the lifetime of the word separator flag

\* C28: noWordSeparatorForTranscription is false after initialisation and
\* after every STOPPED or FAILED status; a STARTED status that configures
\* ja-JP or zh-CN and a Transcript result with such a languageCode set it
\* to true; no other event changes it, so once true it stays true across
\* later STARTED statuses and Transcript events until the next STOPPED or
\* FAILED.
C28_FlagStaysUntilStop ==
  /\ lastEvent.kind = "none" => ~noWordSeparatorForTranscription
  /\ StopEvent => ~noWordSeparatorForTranscription
  /\ (lastEvent.kind = "status" /\ lastEvent.status.type = "started")
       => (noWordSeparatorForTranscription
             <=> (previous.noWordSeparatorForTranscription
                    \/ NoSeparatorLanguage(lastEvent.status)))
  /\ (lastEvent.kind = "status" /\ lastEvent.status.type # "started" /\ ~StopEvent)
       => noWordSeparatorForTranscription = previous.noWordSeparatorForTranscription
  /\ lastEvent.kind = "transcript"
       => (noWordSeparatorForTranscription
             <=> (previous.noWordSeparatorForTranscription
                    \/ \E i \in 1..Len(steps) :
                         steps[i].result.languageCode \in {"ja-JP", "zh-CN"}))

\* the flag was raised by a Transcript result in a session with no STARTED
\* for ja-JP or zh-CN, and a later STARTED that configures another language
\* left it true
C28_Witness ==
  /\ lastEvent.kind = "status"
  /\ lastEvent.status.type = "started"
  /\ \A n \in 1..Len(StatusLines) : ~NoSeparatorLanguage(StatusLines[n])
  /\ previous.lastEvent.kind = "transcript"
  /\ previous.noWordSeparatorForTranscription
  /\ noWordSeparatorForTranscription

\* ---- entity highlighting per render pass

\* C29 as stated: in a render pass an item carries the entity style only if
\* the pass was triggered by a finalized result whose entities hold the
\* item's text, and then every item with such a text carries it, in every
\* result the pass renders; a pass triggered by a partial result, or by a
\* finalized result without that entity, shows the item without the style.
C29_EntityStyleFromTriggeringResult ==
  \A i \in RenderSteps :
    \A k \in 1..Len(ItemSpans(steps[i].rendered.segments)) :
      EntityStyled(ItemSpans(steps[i].rendered.segments)[k])
        <=> ItemSpans(steps[i].rendered.segments)[k].text \in OwnEntityTokens(steps[i])

\* ---- batches of partial results

PartialOnly ==
  /\ lastEvent.kind = "transcript"
  /\ \A k \in 1..Len(lastEvent.results) : lastEvent.results[k].isPartial

\* Map after holds the entries of Map before at their positions, those of
\* the keys in ids possibly overwritten, and after them only keys in ids
OnlyUpserted(before, after, ids) ==
  /\ Len(after) >= Len(before)
  /\ \A n \in 1..Len(before) :
       /\ after[n].key = before[n].key
       /\ before[n].key \notin ids => after[n] = before[n]
  /\ \A n \in (Len(before) + 1)..Len(after) : after[n].key \in ids

\* C30: a Transcript event whose results are all partial removes no tracked
\* key, does not clear the block pointer and leaves transcriptEntitySet
\* untouched; in both maps it only inserts or overwrites the entries of its
\* own resultIds.
C30_PartialBatchOnlyUpserts ==
  PartialOnly
  => /\ transcriptEntitySet = previous.transcriptEntitySet
     /\ OnlyUpserted(previous.partialTranscriptResultTimeMap,
                     partialTranscriptResultTimeMap, BatchIds)
     /\ OnlyUpserted(previous.partialTranscriptResultMap,
                     partialTranscriptResultMap, BatchIds)
     /\ previous.partialTranscriptDiv # NoDiv
          => partialTranscriptDiv = previous.partialTranscriptDiv
     /\ lastEvent.results # <<>> => partialTranscriptDiv # NoDiv
     /\ \A i \in 1..Len(steps) :
          /\ steps[i].timeMapAfter = steps[i].timeMapAtRender
          /\ steps[i].resultMapAfter = steps[i].resultMapAtRender
          /\ steps[i].entitySetAfter = BeforeStep(i).entitySet

\* a partial result overwrites its tracked entry while another key is
\* tracked; both keys stay and the block stays current
C30_Witness ==
  /\ PartialOnly
  /\ ~threw
  /\ \E n \in 1..Len(previous.partialTranscriptResultTimeMap) :
       /\ previous.partialTranscriptResultTimeMap[n].key \in BatchIds
       /\ partialTranscriptResultTimeMap[n] # previous.partialTranscriptResultTimeMap[n]
  /\ \E n \in 1..Len(previous.partialTranscriptResultTimeMap) :
       previous.partialTranscriptResultTimeMap[n].key \notin BatchIds
  /\ previous.partialTranscriptDiv # NoDiv
  /\ partialTranscriptDiv = previous.partialTranscriptDiv
  /\ C30_PartialBatchOnlyUpserts

====
